---- MODULE Spec2Model ----
(***************************************************************************)
(* Model of the documentation assistant's ingestion pipeline               *)
(* (backend/app/ingest.py) and of its retrieval endpoints                  *)
(* (backend/app/main.py).                                                  *)
(*                                                                         *)
(* Text is a sequence of one-character strings.  The character-level       *)
(* helpers are written with indices rather than by recursion over the      *)
(* characters so that they also evaluate on documents larger than          *)
(* MAX_CHUNK_CHARS.                                                        *)
(***************************************************************************)
EXTENDS Integers, Sequences, FiniteSets, TLC

VARIABLES
    sp_in,      \* arguments of a call of _split_section_by_paragraphs
    sp_out,     \* its return value
    cm_in,      \* arguments of a call of chunk_markdown
    cm_out,     \* its return value
    cm_trace,   \* per iteration of its loop: the section and the chunks appended
    returned,   \* which of the two calls has returned: "split", "chunk" or "none"
    docs_dir,   \* DOCS_DIR: whether it exists, and its files
    api_key,    \* whether OPENAI_API_KEY is set for the ingest run
    pc,         \* position of the ingest run
    documents,  \* ingest(): the loaded documents
    all_ids,    \* ingest(): the three parallel arrays
    all_chunks,
    all_metadatas,
    batch_i,    \* ingest(): the upsert loop's i
    collection, \* the collection COLLECTION_NAME of the store at CHROMA_DIR
    run,        \* what the ingest run has issued so far, and the store it found
    req         \* the request the server is handling, and what it did for it

fn_vars == <<sp_in, sp_out, cm_in, cm_out, cm_trace, returned>>
ingest_vars == <<docs_dir, api_key, pc, documents, all_ids, all_chunks,
                 all_metadatas, batch_i, collection, run>>
vars == <<fn_vars, ingest_vars, req>>

\* The value of an argument or result that is not in use.
Unused == <<>>

(***************************************************************************)
(* Bounds of the model                                                     *)
(***************************************************************************)
MaxBodyLen == 5        \* longest section body given to the sub-splitter
MaxChars == 12         \* largest max_chars tried by the function harnesses
MaxLines == 4          \* most lines of a document given to chunk_markdown
MaxFiles == 2          \* most files in the docs directory
MaxTopK == 2           \* largest top_k of a request
BigPara == 800         \* length of each of the two paragraphs of BigDoc
ManySections == 101    \* number of headings of ManyDoc

(***************************************************************************)
(* Program constants                                                       *)
(***************************************************************************)
MAX_CHUNK_CHARS == 1500
batch_size == 100

(***************************************************************************)
(* Python string primitives                                                *)
(***************************************************************************)
NL == "\n"

\* The characters str.strip() removes (those of them the model's texts use).
Whitespace == {" ", NL}

\* s[i:] as a sequence, i a 1-based index.
From(s, i) == SubSeq(s, i, Len(s))

\* Index of the first character of s that is not in `chars`, 0 if none.
FirstNotIn(s, chars) ==
    IF \A i \in 1..Len(s) : s[i] \in chars THEN 0
    ELSE CHOOSE i \in 1..Len(s) :
             s[i] \notin chars /\ \A j \in 1..(i - 1) : s[j] \in chars

\* Index of the last character of s that is not in `chars`, 0 if none.
LastNotIn(s, chars) ==
    IF \A i \in 1..Len(s) : s[i] \in chars THEN 0
    ELSE CHOOSE i \in 1..Len(s) :
             s[i] \notin chars /\ \A j \in (i + 1)..Len(s) : s[j] \in chars

\* str.lstrip(chars)
LStripChars(s, chars) ==
    IF FirstNotIn(s, chars) = 0 THEN <<>> ELSE From(s, FirstNotIn(s, chars))

\* str.strip()
Strip(s) ==
    IF FirstNotIn(s, Whitespace) = 0 THEN <<>>
    ELSE SubSeq(s, FirstNotIn(s, Whitespace), LastNotIn(s, Whitespace))

\* str.startswith(p)
StartsWith(s, p) == Len(s) >= Len(p) /\ SubSeq(s, 1, Len(p)) = p

\* The list a function on 1..n stands for, written out element by element.
AsList(f) == f \o <<>>

\* sep.join(parts)
RECURSIVE Join(_, _)
Join(parts, sep) ==
    IF parts = <<>> THEN <<>>
    ELSE IF Len(parts) = 1 THEN parts[1]
    ELSE parts[1] \o sep \o Join(Tail(parts), sep)

\* The members of the set S of integers that lie in lo..hi, in increasing order.
RECURSIVE Ascending(_, _, _)
Ascending(S, lo, hi) ==
    IF lo > hi THEN <<>>
    ELSE IF lo = hi THEN (IF lo \in S THEN <<lo>> ELSE <<>>)
    ELSE Ascending(S, lo, (lo + hi) \div 2) \o Ascending(S, (lo + hi) \div 2 + 1, hi)

\* The pieces of s around the separators, the k-th of which occupies
\* first[k]..last[k]; what re.split and str.split return without a group.
Pieces(s, first, last) ==
    AsList([k \in 1..(Len(first) + 1) |->
        SubSeq(s, IF k = 1 THEN 1 ELSE last[k - 1] + 1,
                  IF k = Len(first) + 1 THEN Len(s) ELSE first[k] - 1)])

\* str.split(c), c one character
SplitOn(s, c) ==
    LET at == Ascending({i \in 1..Len(s) : s[i] = c}, 1, Len(s))
    IN Pieces(s, at, at)

\* str.splitlines(): no empty last line after a final newline
SplitLines(s) ==
    LET parts == SplitOn(s, NL)
    IN IF parts[Len(parts)] = <<>> THEN SubSeq(parts, 1, Len(parts) - 1) ELSE parts

\* A match of \n{2,} starts at i: a newline that follows no newline and is
\* followed by one (the matches are leftmost and greedy: the maximal runs).
BlankRunStart(s, i) ==
    /\ s[i] = NL
    /\ i = 1 \/ s[i - 1] # NL
    /\ i < Len(s) /\ s[i + 1] = NL

\* A match of \n{2,} ends at i.
BlankRunEnd(s, i) ==
    /\ s[i] = NL
    /\ i = Len(s) \/ s[i + 1] # NL
    /\ i > 1 /\ s[i - 1] = NL

\* re.split(r"\n{2,}", s)
SplitBlankLines(s) ==
    Pieces(s, Ascending({i \in 1..Len(s) : BlankRunStart(s, i)}, 1, Len(s)),
              Ascending({i \in 1..Len(s) : BlankRunEnd(s, i)}, 1, Len(s)))

(***************************************************************************)
(* ingest.py: _split_section_by_paragraphs                                 *)
(***************************************************************************)
BlankLine == <<NL, NL>>

\* Lines 89-93: the context prefix repeated on every sub-chunk.
SplitPrefix(title, heading) ==
    (IF title # <<>> THEN title \o BlankLine ELSE <<>>)
    \o (IF heading # <<>> THEN heading \o BlankLine ELSE <<>>)

\* SplitLoop with the size test lost: every paragraph joins the current buffer.
RECURSIVE SplitLoopNeverFlushes(_, _, _, _)
SplitLoopNeverFlushes(paragraphs, prefix, max_chars, st) ==
    IF paragraphs = <<>> THEN st
    ELSE LET para == Strip(Head(paragraphs))
             next == IF para = <<>> THEN st
                     ELSE [st EXCEPT !.current = st.current \o para \o BlankLine]
         IN SplitLoopNeverFlushes(Tail(paragraphs), prefix, max_chars, next)

\* SplitLoop with the overflowing paragraph lost: the new buffer restarts from
\* the bare prefix.
RECURSIVE SplitLoopDropsPara(_, _, _, _)
SplitLoopDropsPara(paragraphs, prefix, max_chars, st) ==
    IF paragraphs = <<>> THEN st
    ELSE LET para == Strip(Head(paragraphs))
             candidate == st.current \o para \o BlankLine
             next ==
                 IF para = <<>> THEN st
                 ELSE IF Len(candidate) <= max_chars
                 THEN [st EXCEPT !.current = candidate]
                 ELSE [chunks |->
                           IF Strip(st.current) # Strip(prefix)
                           THEN Append(st.chunks, Strip(st.current))
                           ELSE st.chunks,
                       current |-> prefix]
         IN SplitLoopDropsPara(Tail(paragraphs), prefix, max_chars, next)

\* Lines 99-109: the loop over the paragraphs; st = [chunks, current].
RECURSIVE SplitLoop(_, _, _, _)
SplitLoop(paragraphs, prefix, max_chars, st) ==
    IF paragraphs = <<>> THEN st
    ELSE LET para == Strip(Head(paragraphs))
             candidate == st.current \o para \o BlankLine
             next ==
                 IF para = <<>> THEN st
                 ELSE IF Len(candidate) <= max_chars
                 THEN [st EXCEPT !.current = candidate]
                 ELSE [chunks |->
                           IF Strip(st.current) # Strip(prefix)
                           THEN Append(st.chunks, Strip(st.current))
                           ELSE st.chunks,
                       current |-> prefix \o para \o BlankLine]
         IN SplitLoop(Tail(paragraphs), prefix, max_chars, next)

\* Lines 81-114.
split_section_by_paragraphs(section_text, title, heading, max_chars) ==
    LET prefix == SplitPrefix(title, heading)
        st == SplitLoop(SplitBlankLines(section_text), prefix, max_chars,
                        [chunks |-> <<>>, current |-> prefix])
        chunks ==
            IF Strip(st.current) # <<>> /\ Strip(st.current) # Strip(prefix)
            THEN Append(st.chunks, Strip(st.current))
            ELSE st.chunks
    IN IF chunks # <<>> THEN chunks ELSE <<Strip(section_text)>>

(***************************************************************************)
(* ingest.py: _split_by_headings                                           *)
(***************************************************************************)
\* The pattern ^(## .+)$ (re.MULTILINE) matches at i: i starts a line, the
\* line starts with "## " and at least one more character follows on it.
HeadingAt(s, i) ==
    /\ i = 1 \/ s[i - 1] = NL
    /\ i + 3 <= Len(s)
    /\ s[i] = "#" /\ s[i + 1] = "#" /\ s[i + 2] = " "
    /\ s[i + 3] # NL

\* Last character of the line that holds index i (.+ is greedy).
LineEnd(s, i) ==
    CHOOSE e \in i..Len(s) :
        /\ \A j \in i..e : s[j] # NL
        /\ (e = Len(s) \/ s[e + 1] = NL)

\* Line 55: pattern.split(text) = [pre-text, heading1, body1, heading2, ...]:
\* the pieces around the matches, and (the pattern has a group) each match
\* between the pieces it separates.
HeadingParts(s) ==
    LET first == Ascending({i \in 1..Len(s) : HeadingAt(s, i)}, 1, Len(s))
        last == AsList([k \in 1..Len(first) |-> LineEnd(s, first[k])])
        between == Pieces(s, first, last)
    IN AsList([k \in 1..(2 * Len(first) + 1) |->
            IF k % 2 = 1 THEN between[(k + 1) \div 2]
            ELSE SubSeq(s, first[k \div 2], last[k \div 2])])

\* Lines 64-67: the (heading, body) pairs of parts[i], parts[i + 1], i odd in
\* Python's 0-based indices, which are the even 1-based indices here.
HeadingSections(parts) ==
    AsList([j \in 1..(Len(parts) \div 2) |->
        [heading |-> Strip(parts[2 * j]),
         body |-> IF 2 * j + 1 <= Len(parts) THEN Strip(parts[2 * j + 1]) ELSE <<>>]])

\* split_by_headings with the preamble kept untrimmed.
split_by_headings_raw_preamble(text) ==
    LET parts == HeadingParts(text)
    IN (IF parts[1] # <<>> THEN <<[heading |-> <<>>, body |-> parts[1]]>> ELSE <<>>)
       \o HeadingSections(parts)

\* Lines 47-69.
split_by_headings(text) ==
    LET parts == HeadingParts(text)
        preamble == Strip(parts[1])
    IN (IF preamble # <<>> THEN <<[heading |-> <<>>, body |-> preamble]>> ELSE <<>>)
       \o HeadingSections(parts)

(***************************************************************************)
(* ingest.py: _extract_title                                               *)
(***************************************************************************)
\* Line 76: the test of one stripped line.
IsTitleLine(stripped) ==
    StartsWith(stripped, <<"#", " ">>) /\ ~StartsWith(stripped, <<"#", "#", " ">>)

\* Lines 72-78.
extract_title(text) ==
    LET lines == SplitLines(text)
    IN IF \A k \in 1..Len(lines) : ~IsTitleLine(Strip(lines[k])) THEN <<>>
       ELSE Strip(lines[CHOOSE k \in 1..Len(lines) :
                            /\ IsTitleLine(Strip(lines[k]))
                            /\ \A j \in 1..(k - 1) : ~IsTitleLine(Strip(lines[j]))])

(***************************************************************************)
(* ingest.py: chunk_markdown                                               *)
(***************************************************************************)
Intro == <<"(", "i", "n", "t", "r", "o", ")">>

\* Line 128.
SectionName(heading) ==
    IF heading # <<>> THEN Strip(LStripChars(heading, {"#", " "})) ELSE Intro

\* FullText with the title on the preamble too.
FullTextTitleAlways(title, heading, body) ==
    Join((IF title # <<>> THEN <<title>> ELSE <<>>)
         \o (IF heading # <<>> THEN <<heading>> ELSE <<>>)
         \o (IF body # <<>> THEN <<body>> ELSE <<>>),
         BlankLine)

\* Lines 131-139.
FullText(title, heading, body) ==
    Join((IF title # <<>> /\ heading # <<>> THEN <<title>> ELSE <<>>)
         \o (IF heading # <<>> THEN <<heading>> ELSE <<>>)
         \o (IF body # <<>> THEN <<body>> ELSE <<>>),
         BlankLine)

\* Lines 146-147.
Labelled(texts, section_name) ==
    AsList([k \in 1..Len(texts) |-> [text |-> texts[k], section |-> section_name]])

\* Lines 127-147: the chunks of one section.
SectionChunks(title, heading, body, max_chars) ==
    IF Len(FullText(title, heading, body)) <= max_chars
    THEN <<[text |-> FullText(title, heading, body), section |-> SectionName(heading)]>>
    ELSE Labelled(split_section_by_paragraphs(body, title, heading, max_chars),
                  SectionName(heading))

\* The loop of lines 127-147 over the sections, each section's chunks apart.
ChunksBySection(sections, title, max_chars) ==
    AsList([k \in 1..Len(sections) |->
        SectionChunks(title, sections[k].heading, sections[k].body, max_chars)])

\* What each iteration of the loop read and appended.
ChunkTrace(text, max_chars) ==
    LET sections == split_by_headings(text)
        by_section == ChunksBySection(sections, extract_title(text), max_chars)
    IN AsList([k \in 1..Len(sections) |->
            [heading |-> sections[k].heading, body |-> sections[k].body,
             chunks |-> by_section[k]]])

\* The lists lo..hi of a list of lists, end to end.
RECURSIVE FlattenRange(_, _, _)
FlattenRange(lists, lo, hi) ==
    IF lo > hi THEN <<>>
    ELSE IF lo = hi THEN lists[lo]
    ELSE FlattenRange(lists, lo, (lo + hi) \div 2)
         \o FlattenRange(lists, (lo + hi) \div 2 + 1, hi)

Flatten(lists) == FlattenRange(lists, 1, Len(lists))

\* Lines 117-149.
chunk_markdown(text, max_chars) ==
    Flatten(ChunksBySection(split_by_headings(text), extract_title(text), max_chars))

(***************************************************************************)
(* The docs directory and the order of sorted(docs_dir.glob("**/*.md"))    *)
(***************************************************************************)
\* The characters of the model's paths, in code point order.
CodePoints == <<".", "/", "0", "1", "2", "3", "4", "5", "6", "7", "8", "9", ":",
                "a", "b", "c", "d", "e", "h", "k", "m", "n", "t", "u", "x">>

Code(c) == CHOOSE i \in 1..Len(CodePoints) : CodePoints[i] = c

\* a < b for two strings.
StrLess(a, b) ==
    \E k \in 1..(Len(b)) :
        /\ \A j \in 1..(k - 1) : j <= Len(a) /\ a[j] = b[j]
        /\ \/ k = Len(a) + 1
           \/ k <= Len(a) /\ Code(a[k]) < Code(b[k])

\* Path.__lt__: the paths' parts compare as sequences of strings.
PathLess(p, q) ==
    LET a == SplitOn(p, "/")
        b == SplitOn(q, "/")
    IN \E k \in 1..Len(b) :
           /\ \A j \in 1..(k - 1) : j <= Len(a) /\ a[j] = b[j]
           /\ \/ k = Len(a) + 1
              \/ k <= Len(a) /\ StrLess(a[k], b[k])

\* Path.name
FileName(path) == SplitOn(path, "/")[Len(SplitOn(path, "/"))]

\* The pattern "**/*.md": the file's name ends with ".md".
IsMarkdown(path) ==
    /\ Len(FileName(path)) >= 3
    /\ From(FileName(path), Len(FileName(path)) - 2) = <<".", "m", "d">>

\* sorted(...) of a set of files, by path.
RECURSIVE SortedFiles(_)
SortedFiles(files) ==
    IF files = {} THEN <<>>
    ELSE LET first == CHOOSE f \in files :
                          \A g \in files \ {f} : PathLess(f.path, g.path)
         IN <<first>> \o SortedFiles(files \ {first})

MarkdownFiles(files) == {f \in files : IsMarkdown(f.path)}

(***************************************************************************)
(* ingest.py: load_markdown_files                                          *)
(***************************************************************************)
\* LoadRaises with the failed reads passed over.
LoadNeverRaises(files) == FALSE

\* Line 38: read_text raises on an unreadable or undecodable file.
LoadRaises(files) == \E f \in MarkdownFiles(files) : ~f.readable

\* Lines 34-44, when no read raises.
load_markdown_files(files) ==
    LET sorted == SortedFiles(MarkdownFiles(files))
    IN AsList([k \in 1..Len(sorted) |->
            [filename |-> FileName(sorted[k].path),
             relative_path |-> sorted[k].path,
             content |-> sorted[k].content]])

(***************************************************************************)
(* ingest.py: ingest, lines 167-183                                        *)
(***************************************************************************)
Digits == <<"0", "1", "2", "3", "4", "5", "6", "7", "8", "9">>

\* str(i) of an f-string, i >= 0
RECURSIVE Decimal(_)
Decimal(i) ==
    IF i < 10 THEN <<Digits[i + 1]>>
    ELSE Decimal(i \div 10) \o <<Digits[(i % 10) + 1]>>

ChunkMarker == <<":", ":", "c", "h", "u", "n", "k">>

\* ChunkId with the chunk's index left out: every chunk of a document is chunk 0.
ChunkIdNoIndex(relative_path, i) == relative_path \o ChunkMarker \o Decimal(0)

\* Line 176.
ChunkId(relative_path, i) == relative_path \o ChunkMarker \o Decimal(i)

\* Lines 178-183.
ChunkMetadata(doc, i, chunk) ==
    [source |-> doc.relative_path, filename |-> doc.filename,
     chunk_index |-> i, section |-> chunk.section]

\* Lines 175-183 for one document: its entries of the three arrays.
DocEntries(doc) ==
    LET chunks == chunk_markdown(doc.content, MAX_CHUNK_CHARS)
    IN AsList([k \in 1..Len(chunks) |->
            [id |-> ChunkId(doc.relative_path, k - 1),
             document |-> chunks[k].text,
             metadata |-> ChunkMetadata(doc, k - 1, chunks[k])]])

\* Lines 172-183: the loop over the documents.
AllEntries(docs) == Flatten(AsList([d \in 1..Len(docs) |-> DocEntries(docs[d])]))

(***************************************************************************)
(* The vector store                                                        *)
(***************************************************************************)
\* collection.count()
Count(coll) == Cardinality(coll.items)

Ids(items) == {e.id : e \in items}

\* collection.upsert(ids, documents, metadatas): entries replace by id.
Upsert(coll, entries) ==
    [coll EXCEPT !.items =
        {e \in coll.items : \A k \in 1..Len(entries) : entries[k].id # e.id}
        \cup {entries[k] : k \in 1..Len(entries)}]

(***************************************************************************)
(* ingest.py: ingest, step by step at its calls to the outside             *)
(***************************************************************************)
Min(a, b) == IF a <= b THEN a ELSE b

Fail(reason) ==
    /\ pc' = "failed"
    /\ run' = [run EXCEPT !.error = reason]

\* Lines 156-165: the directory check and the load.
IngestLoad ==
    /\ pc = "start"
    /\ IF ~docs_dir.exists
       THEN Fail("no-docs-dir") /\ UNCHANGED documents
       ELSE IF LoadRaises(docs_dir.files)
       THEN Fail("read-error") /\ UNCHANGED documents
       ELSE IF load_markdown_files(docs_dir.files) = <<>>
       THEN Fail("no-markdown-files") /\ UNCHANGED documents
       ELSE /\ documents' = load_markdown_files(docs_dir.files)
            /\ pc' = "prepare"
            /\ UNCHANGED run
    /\ UNCHANGED <<fn_vars, docs_dir, api_key, all_ids, all_chunks,
                   all_metadatas, batch_i, collection, req>>

\* Lines 167-196: the three arrays, then the API key check.
IngestPrepare ==
    /\ pc = "prepare"
    /\ \E entries \in {AllEntries(documents)} :
           /\ all_ids' = [k \in 1..Len(entries) |-> entries[k].id]
           /\ all_chunks' = [k \in 1..Len(entries) |-> entries[k].document]
           /\ all_metadatas' = [k \in 1..Len(entries) |-> entries[k].metadata]
    /\ IF api_key THEN pc' = "delete" /\ UNCHANGED run ELSE Fail("no-api-key")
    /\ UNCHANGED <<fn_vars, docs_dir, api_key, documents, batch_i, collection, req>>

\* Lines 198-203: delete_collection; an exception is logged and swallowed.
IngestDelete ==
    /\ pc = "delete"
    /\ pc' = "create"
    /\ run' = [run EXCEPT !.delete_issued = TRUE]
    /\ \/ collection.exists /\ collection' = [exists |-> FALSE, items |-> {}]
       \/ UNCHANGED collection
    /\ UNCHANGED <<fn_vars, docs_dir, api_key, documents, all_ids, all_chunks,
                   all_metadatas, batch_i, req>>

\* Lines 205-208: get_or_create_collection.
IngestCreate ==
    /\ pc = "create"
    /\ pc' = "upsert"
    /\ batch_i' = 0
    /\ collection' = [collection EXCEPT !.exists = TRUE]
    /\ UNCHANGED <<fn_vars, docs_dir, api_key, documents, all_ids, all_chunks,
                   all_metadatas, run, req>>

\* Lines 212-218: one iteration of the upsert loop, or its end; the upsert
\* embeds the batch through the embedding provider and may raise.
IngestUpsert ==
    /\ pc = "upsert"
    /\ IF batch_i < Len(all_chunks)
       THEN LET end == Min(batch_i + batch_size, Len(all_chunks))
                batch == [k \in 1..(end - batch_i) |->
                             [id |-> all_ids[batch_i + k],
                              document |-> all_chunks[batch_i + k],
                              metadata |-> all_metadatas[batch_i + k]]]
            IN \/ /\ collection' = Upsert(collection, batch)
                  /\ batch_i' = batch_i + batch_size
                  /\ pc' = "upsert"
                  /\ run' = [run EXCEPT !.upserts_issued = @ + 1]
               \/ /\ pc' = "failed"
                  /\ run' = [run EXCEPT !.upserts_issued = @ + 1,
                                        !.error = "upsert-error"]
                  /\ UNCHANGED <<collection, batch_i>>
       ELSE /\ pc' = "done"
            /\ UNCHANGED <<collection, batch_i, run>>
    /\ UNCHANGED <<fn_vars, docs_dir, api_key, documents, all_ids, all_chunks,
                   all_metadatas, req>>

(***************************************************************************)
(* main.py: the endpoints /retrieve, /query and /debug-query               *)
(***************************************************************************)
Endpoints == {"retrieve", "query", "debug-query"}

\* Lines 85 and 132: the endpoints behind @limiter.limit.
Limited == {"retrieve", "query"}

\* Lines 66 and 122: top_k is validated to lie in 1..20.
TopKs == 1..MaxTopK

\* Lines 151 and eval.py line 34: doc_id.split("::")[0]
SourceOf(doc_id) ==
    LET at == {i \in 1..(Len(doc_id) - 1) : doc_id[i] = ":" /\ doc_id[i + 1] = ":"}
    IN IF at = {} THEN doc_id
       ELSE SubSeq(doc_id, 1, (CHOOSE i \in at : \A j \in at : i <= j) - 1)

\* Lines 144-154: the sources of the retrieved ids, each once, in order.
RECURSIVE Sources(_)
Sources(ids) ==
    IF ids = <<>> THEN <<>>
    ELSE LET before == Sources(SubSeq(ids, 1, Len(ids) - 1))
             source == SourceOf(ids[Len(ids)])
         IN IF \E k \in 1..Len(before) : before[k] = source THEN before
            ELSE Append(before, source)

\* The n entries of lowest chunk_index of each document of the collection.
FirstOfEachSource(coll, n) ==
    {e \in coll.items :
        Cardinality({f \in coll.items :
                        /\ f.metadata.source = e.metadata.source
                        /\ f.metadata.chunk_index < e.metadata.chunk_index}) < n}

\* collection.query(n_results = n): the ids of n entries of the collection,
\* nearest first; which ones is the embedding's matter.  The handlers read of
\* a result its id and of the id its source, so the entries of one document
\* stand for each other and the results are drawn from FirstOfEachSource.
QueryResults(coll, n) ==
    {r \in [1..n -> Ids(FirstOfEachSource(coll, n))] :
        \A i, j \in 1..n : i # j => r[i] # r[j]}

NoRequest ==
    [stage |-> "idle", endpoint |-> "none", top_k |-> 0, status |-> 0,
     detail |-> "none", count_seen |-> -1, queried |-> FALSE,
     completed |-> FALSE, returned |-> 0, sources |-> <<>>]

Respond(r, status, detail) ==
    [r EXCEPT !.stage = "responded", !.status = status, !.detail = detail]

\* A request arrives at one of the three endpoints.
Receive ==
    /\ req.stage = "idle"
    /\ \E e \in Endpoints, k \in TopKs :
           req' = [req EXCEPT !.endpoint = e, !.top_k = k,
                              !.stage = IF e \in Limited THEN "limiter" ELSE "handler"]
    /\ UNCHANGED <<fn_vars, ingest_vars>>

\* Lines 85, 132 and 31-33: the limiter lets the request through or raises
\* RateLimitExceeded; rate_limit_handler then raises an HTTPException from
\* inside an exception handler, which the framework answers with 429 or 500.
RateLimit ==
    /\ req.stage = "limiter"
    /\ \/ req' = [req EXCEPT !.stage = "handler"]
       \/ \E status \in {429, 500} : req' = Respond(req, status, "rate-limit")
    /\ UNCHANGED <<fn_vars, ingest_vars>>

\* HandlerCount with the emptiness test lost.
HandlerCountNoGuard ==
    /\ req.stage = "handler"
    /\ collection.exists
    /\ req' = [req EXCEPT !.count_seen = Count(collection), !.stage = "similarity"]
    /\ UNCHANGED <<fn_vars, ingest_vars>>

\* Lines 87-88, 134-135 and 198-199: the first collection.count().  On a
\* collection that an ingest run has deleted and not yet created again the
\* store either raises or reports no entries.
HandlerCount ==
    /\ req.stage = "handler"
    /\ IF collection.exists
       THEN req' = IF Count(collection) = 0
                   THEN Respond([req EXCEPT !.count_seen = 0], 503, "no-documents")
                   ELSE [req EXCEPT !.count_seen = Count(collection),
                                    !.stage = "similarity"]
       ELSE \/ req' = Respond(req, 500, "store-error")
            \/ req' = Respond([req EXCEPT !.count_seen = 0], 503, "no-documents")
    /\ UNCHANGED <<fn_vars, ingest_vars>>

\* Lines 90-107, 137-159 and 201-222: the second collection.count() and the
\* similarity query.  With no entry left to ask for (n_results = 0, or the
\* collection gone) the store raises or returns no result.
HandlerSimilarity ==
    /\ req.stage = "similarity"
    /\ \E asked \in {[req EXCEPT !.queried = TRUE]} :
           IF ~collection.exists \/ Count(collection) = 0
           THEN \/ req' = Respond(asked, 500, "store-error")
                \/ /\ collection.exists
                   /\ req' = IF req.endpoint = "query"
                              THEN [asked EXCEPT !.stage = "completion"]
                              ELSE Respond(asked, 200, "ok")
           ELSE \E n \in {Min(req.top_k, Count(collection))} :
                    IF req.endpoint = "query"
                    THEN \E sources \in {Sources(r) : r \in QueryResults(collection, n)} :
                             req' = [asked EXCEPT !.stage = "completion",
                                                  !.returned = n,
                                                  !.sources = sources]
                    ELSE req' = Respond([asked EXCEPT !.returned = n], 200, "ok")
    /\ UNCHANGED <<fn_vars, ingest_vars>>

\* Lines 163-179 of /query: the chat completion, which may raise.
HandlerCompletion ==
    /\ req.stage = "completion"
    /\ \E called \in {[req EXCEPT !.completed = TRUE]} :
           \/ req' = Respond(called, 200, "ok")
           \/ req' = Respond(called, 503, "llm-failed")
    /\ UNCHANGED <<fn_vars, ingest_vars>>

(***************************************************************************)
(* The docs directories and stores the runs start from                     *)
(***************************************************************************)
RepeatChar(c, n) == AsList([k \in 1..n |-> c])

Repeat(s, n) == AsList([k \in 1..(n * Len(s)) |-> s[((k - 1) % Len(s)) + 1]])

\* "# a\n\nb\n\n## c\n\nd"
SmallDoc == <<"#", " ", "a", "\n", "\n", "b", "\n", "\n", "#", "#", " ", "c", "\n", "\n", "d">>

\* A titled document whose one headed section holds two paragraphs of BigPara
\* characters each.
BigDoc ==
    <<"#", " ", "a", "\n", "\n", "#", "#", " ", "b", "\n", "\n">> \o RepeatChar("c", BigPara)
    \o BlankLine \o RepeatChar("d", BigPara)

\* ManySections headings, each a section of its own.
ManyDoc == Repeat(<<"#", "#", " ", "h", "\n">>, ManySections)

File(path, content, readable) ==
    [path |-> path, content |-> content, readable |-> readable]

AllFiles ==
    { File(<<"a", ".", "m", "d">>, SmallDoc, TRUE),
      File(<<"d", "/", "b", ".", "m", "d">>, BigDoc, TRUE),
      File(<<"a", ":", ":", "b", ".", "m", "d">>, SmallDoc, TRUE),
      File(<<"m", ".", "m", "d">>, ManyDoc, TRUE),
      File(<<"e", ".", "m", "d">>, <<>>, TRUE),
      File(<<"x", ".", "m", "d">>, <<>>, FALSE),
      File(<<"n", ".", "t", "x", "t">>, <<>>, FALSE) }

DocsDirs ==
    {[exists |-> FALSE, files |-> {}]}
    \cup {[exists |-> TRUE, files |-> fs] :
              fs \in {x \in SUBSET AllFiles : Cardinality(x) <= MaxFiles}}

\* An entry left by an earlier run.
OldEntry(path, i) ==
    [id |-> ChunkId(path, i), document |-> <<"o", "l", "d">>,
     metadata |-> [source |-> path, filename |-> FileName(path),
                   chunk_index |-> i, section |-> Intro]]

Stores ==
    { [exists |-> TRUE, items |-> {}],
      [exists |-> TRUE,
       items |-> {OldEntry(<<"a", ".", "m", "d">>, 0), OldEntry(<<"a", ".", "m", "d">>, 7),
                  OldEntry(<<"o", "l", "d", ".", "m", "d">>, 0)}] }

IngestOff ==
    /\ docs_dir = Unused /\ api_key = FALSE /\ pc = "off"
    /\ documents = Unused /\ all_ids = Unused /\ all_chunks = Unused
    /\ all_metadatas = Unused /\ batch_i = 0
    /\ collection = Unused /\ run = Unused
    /\ req = Unused

FnOff ==
    /\ sp_in = Unused /\ sp_out = Unused
    /\ cm_in = Unused /\ cm_out = Unused /\ cm_trace = Unused
    /\ returned = "none"

\* An ingest run about to start on one of the directories `dirs`.
IngestInit(dirs) ==
    /\ docs_dir \in dirs
    /\ api_key \in BOOLEAN
    /\ collection \in Stores
    /\ pc = "start"
    /\ documents = <<>> /\ all_ids = <<>> /\ all_chunks = <<>> /\ all_metadatas = <<>>
    /\ batch_i = 0
    /\ run = [found |-> collection, delete_issued |-> FALSE,
              upserts_issued |-> 0, error |-> "none"]

(***************************************************************************)
(* One ingest run (python -m app.ingest), over every docs directory        *)
(***************************************************************************)
Init ==
    /\ FnOff
    /\ IngestInit(DocsDirs)
    /\ req = Unused

Next ==
    \/ IngestLoad
    \/ IngestPrepare
    \/ IngestDelete
    \/ IngestCreate
    \/ IngestUpsert

Spec == Init /\ [][Next]_vars

(***************************************************************************)
(* The server answering one request while an ingest run works on the same  *)
(* store; the run's directory holds the smaller files.                     *)
(***************************************************************************)
ServeDirs ==
    {d \in DocsDirs : \A f \in d.files : Len(f.content) < Len(BigDoc) /\ Len(f.content) < Len(ManyDoc)}

ServeInit ==
    /\ FnOff
    /\ IngestInit(ServeDirs)
    /\ req = NoRequest

ServeNext ==
    \/ IngestLoad
    \/ IngestPrepare
    \/ IngestDelete
    \/ IngestCreate
    \/ IngestUpsert
    \/ Receive
    \/ RateLimit
    \/ HandlerCount
    \/ HandlerSimilarity
    \/ HandlerCompletion

SpecServe == ServeInit /\ [][ServeNext]_vars

(***************************************************************************)
(* Harness of the paragraph sub-splitter: every title, heading, body and   *)
(* max_chars of the bounded sets, then one call.                           *)
(***************************************************************************)
RECURSIVE SeqsUpTo(_, _)
SeqsUpTo(S, n) ==
    IF n = 0 THEN {<<>>}
    ELSE LET shorter == SeqsUpTo(S, n - 1)
         IN shorter \cup {Append(s, c) : s \in shorter, c \in S}

SplitTitles == {<<>>, <<"#", " ", "a">>, <<" ">>}
SplitHeadings == {<<>>, <<"#", "#", " ", "a">>}
SplitBodies == SeqsUpTo({"a", " ", NL}, MaxBodyLen)

SplitInit ==
    /\ sp_in \in [title : SplitTitles, heading : SplitHeadings,
                  body : SplitBodies, max_chars : 1..MaxChars]
    /\ sp_out = Unused
    /\ cm_in = Unused /\ cm_out = Unused /\ cm_trace = Unused
    /\ returned = "none"
    /\ IngestOff

CallSplit ==
    /\ returned = "none"
    /\ returned' = "split"
    /\ sp_out' = split_section_by_paragraphs(sp_in.body, sp_in.title,
                                             sp_in.heading, sp_in.max_chars)
    /\ UNCHANGED <<sp_in, cm_in, cm_out, cm_trace, ingest_vars, req>>

SplitNext == CallSplit

SpecSplit == SplitInit /\ [][SplitNext]_vars

(***************************************************************************)
(* Harness of chunk_markdown: every document of at most MaxLines lines     *)
(* drawn from DocLines and every max_chars, then one call.                 *)
(***************************************************************************)
DocLines == {<<>>, <<"a">>, <<"#", " ", "a">>, <<"#", "#", " ", "a">>, <<"#", "#", " ">>}

DocTexts == {Join(lines, <<NL>>) : lines \in SeqsUpTo(DocLines, MaxLines) \ {<<>>}}

ChunkInit ==
    /\ cm_in \in [text : DocTexts, max_chars : 1..MaxChars]
    /\ cm_out = Unused /\ cm_trace = Unused
    /\ sp_in = Unused /\ sp_out = Unused
    /\ returned = "none"
    /\ IngestOff

CallChunk ==
    /\ returned = "none"
    /\ returned' = "chunk"
    /\ cm_out' = chunk_markdown(cm_in.text, cm_in.max_chars)
    /\ cm_trace' = ChunkTrace(cm_in.text, cm_in.max_chars)
    /\ UNCHANGED <<cm_in, sp_in, sp_out, ingest_vars, req>>

ChunkNext == CallChunk

SpecChunk == ChunkInit /\ [][ChunkNext]_vars

(***************************************************************************)
(* Properties of the paragraph sub-splitter                                *)
(***************************************************************************)
IsEmptyText(s) == s = <<>>
IsNonEmptyText(s) == s # <<>>

StripAll(parts) == AsList([k \in 1..Len(parts) |-> Strip(parts[k])])

\* The non-empty trimmed paragraphs of a body, in order.
Paragraphs(body) == SelectSeq(StripAll(SplitBlankLines(body)), IsNonEmptyText)

\* The text of a sub-chunk that holds exactly the paragraphs ps behind prefix.
ChunkOf(prefix, ps) == Strip(prefix \o Join(ps, BlankLine) \o BlankLine)

\* chunks is, chunk by chunk, a division of paras into consecutive non-empty
\* groups, each group whole behind the prefix.
RECURSIVE Covers(_, _, _)
Covers(chunks, paras, prefix) ==
    IF chunks = <<>> THEN paras = <<>>
    ELSE \E m \in 1..Len(paras) :
             /\ Head(chunks) = ChunkOf(prefix, SubSeq(paras, 1, m))
             /\ Covers(Tail(chunks), SubSeq(paras, m + 1, Len(paras)), prefix)

SplitCalled == returned = "split"
SpPrefix == SplitPrefix(sp_in.title, sp_in.heading)
SpParas == Paragraphs(sp_in.body)

\* C1 (as stated): every sub-chunk returned by _split_section_by_paragraphs has
\* length <= max_chars, unless it holds exactly one paragraph whose own length,
\* without the title/heading prefix, exceeds max_chars.
C1_AsStated ==
    SplitCalled =>
        \A k \in 1..Len(sp_out) :
            \/ Len(sp_out[k]) <= sp_in.max_chars
            \/ \E i \in 1..Len(SpParas) :
                   /\ sp_out[k] = ChunkOf(SpPrefix, <<SpParas[i]>>)
                   /\ Len(SpParas[i]) > sp_in.max_chars

\* C1 (amended): every sub-chunk has length <= max_chars, unless it holds
\* exactly one paragraph whose length together with the title/heading prefix
\* exceeds max_chars.
C1_SubChunkWithinBudget ==
    SplitCalled =>
        \A k \in 1..Len(sp_out) :
            \/ Len(sp_out[k]) <= sp_in.max_chars
            \/ \E i \in 1..Len(SpParas) :
                   /\ sp_out[k] = ChunkOf(SpPrefix, <<SpParas[i]>>)
                   /\ Len(SpPrefix) + Len(SpParas[i]) > sp_in.max_chars

\* A call on several paragraphs that returned a sub-chunk within the budget
\* and a lone-paragraph sub-chunk over it, the paragraph itself within it.
C1_Witness ==
    /\ SplitCalled
    /\ Len(SpParas) >= 2
    /\ \E k \in 1..Len(sp_out) : Len(sp_out[k]) <= sp_in.max_chars
    /\ \E k \in 1..Len(sp_out), i \in 1..Len(SpParas) :
           /\ Len(sp_out[k]) > sp_in.max_chars
           /\ sp_out[k] = ChunkOf(SpPrefix, <<SpParas[i]>>)
           /\ Len(SpParas[i]) <= sp_in.max_chars

\* C3: the sub-splitter neither splits nor drops a paragraph: the returned
\* sub-chunks divide the body's non-empty trimmed paragraphs, in their order,
\* into consecutive groups, each paragraph whole in exactly one sub-chunk; a
\* body of a single paragraph yields exactly one sub-chunk holding it whole.
C3_ParagraphsKeptWhole ==
    SplitCalled =>
        /\ SpParas # <<>> => Covers(sp_out, SpParas, SpPrefix)
        /\ SpParas = <<>> => sp_out = <<Strip(sp_in.body)>>
        /\ Len(SpParas) = 1 => sp_out = <<ChunkOf(SpPrefix, SpParas)>>

\* A call on two different paragraphs that returned one sub-chunk for each.
C3_Witness ==
    /\ SplitCalled
    /\ Len(SpParas) = 2 /\ SpParas[1] # SpParas[2]
    /\ Len(sp_out) = 2

(***************************************************************************)
(* Properties of chunk_markdown                                            *)
(***************************************************************************)
ChunkCalled == returned = "chunk"
CmTitle == extract_title(cm_in.text)

Texts(chunks) == AsList([k \in 1..Len(chunks) |-> chunks[k].text])

\* C2: no chunk returned by chunk_markdown has an empty or whitespace-only
\* text, for every document and every max_chars >= 1, sections with an empty
\* body and the sub-splitter's whole-section fallback included.
C2_NoEmptyChunk ==
    ChunkCalled => \A k \in 1..Len(cm_out) : Strip(cm_out[k].text) # <<>>

\* The text has no line that is "## " followed by at least one character.
NoHeadingLine(text) ==
    LET lines == SplitOn(text, NL)
    IN \A k \in 1..Len(lines) :
           ~(StartsWith(lines[k], <<"#", "#", " ">>) /\ Len(lines[k]) >= 4)

OneIntroSection ==
    /\ Len(cm_trace) = 1
    /\ cm_trace[1].heading = <<>>
    /\ cm_trace[1].body = Strip(cm_in.text)
    /\ Len(cm_out) >= 1

\* C4 (as stated): a document with no level-2 heading line yields exactly one
\* section, with heading "" and the whole trimmed text as body, and
\* chunk_markdown returns at least one chunk.
C4_AsStated ==
    ChunkCalled /\ NoHeadingLine(cm_in.text) => OneIntroSection

\* C4 (amended): a document with no level-2 heading line and at least one
\* non-whitespace character yields exactly one section, with heading "" and
\* the whole trimmed text as body, and chunk_markdown returns at least one
\* chunk; a document of whitespace only yields no section and no chunk.
C4_OneSectionWithoutHeadings ==
    ChunkCalled /\ NoHeadingLine(cm_in.text) =>
        IF Strip(cm_in.text) # <<>> THEN OneIntroSection
        ELSE cm_trace = <<>> /\ cm_out = <<>>

\* A document with a title line and no heading, chunked.
C4_Witness ==
    /\ ChunkCalled
    /\ NoHeadingLine(cm_in.text)
    /\ Len(Strip(cm_in.text)) >= 3
    /\ Len(cm_out) >= 1

\* The text the direct path composes, part by part.
DirectText(title, heading, body) ==
    (IF title # <<>> /\ heading # <<>> THEN title \o BlankLine ELSE <<>>)
    \o heading
    \o (IF heading # <<>> /\ body # <<>> THEN BlankLine ELSE <<>>)
    \o body

\* The label: the heading without its leading '#' and ' ' characters, trimmed.
DirectLabel(heading) ==
    IF heading = <<>> THEN Intro
    ELSE LET rest == {i \in 1..Len(heading) : heading[i] \notin {"#", " "}}
         IN IF rest = {} THEN <<>>
            ELSE Strip(From(heading, CHOOSE i \in rest : \A j \in rest : i <= j))

\* C8: for every section whose composed text has length <= max_chars,
\* chunk_markdown emits exactly one chunk: the present parts title (present iff
\* title and heading are both non-empty), heading, body, joined by one blank
\* line, labelled with the heading stripped of leading '#'/space characters,
\* or "(intro)" for the empty heading.
C8_DirectPath ==
    ChunkCalled =>
        \A k \in 1..Len(cm_trace) :
            LET sec == cm_trace[k]
                expected == DirectText(CmTitle, sec.heading, sec.body)
            IN Len(expected) <= cm_in.max_chars =>
                   sec.chunks = <<[text |-> expected, section |-> DirectLabel(sec.heading)]>>

\* A document with a title whose intro section and whose headed section with a
\* body both went the direct path.
C8_Witness ==
    /\ ChunkCalled
    /\ CmTitle # <<>>
    /\ \E k \in 1..Len(cm_trace) :
           /\ cm_trace[k].heading = <<>>
           /\ Len(cm_trace[k].body) <= cm_in.max_chars
    /\ \E k \in 1..Len(cm_trace) :
           /\ cm_trace[k].heading # <<>> /\ cm_trace[k].body # <<>>
           /\ Len(DirectText(CmTitle, cm_trace[k].heading, cm_trace[k].body))
                  <= cm_in.max_chars

\* C9: no chunk of the section with the empty heading gets the document title
\* prepended: on the direct path its one chunk is the body, on the sub-split
\* path its chunks divide the body's paragraphs with no prefix.
C9_PreambleNeverRepeatsTitle ==
    ChunkCalled =>
        \A k \in 1..Len(cm_trace) :
            cm_trace[k].heading = <<>> =>
                IF Len(cm_trace[k].body) <= cm_in.max_chars
                THEN Texts(cm_trace[k].chunks) = <<cm_trace[k].body>>
                ELSE Covers(Texts(cm_trace[k].chunks), Paragraphs(cm_trace[k].body), <<>>)

(***************************************************************************)
(* Properties of the ingest run                                            *)
(***************************************************************************)
\* The run has built its three arrays.
Prepared ==
    \/ pc \in {"delete", "create", "upsert", "done"}
    \/ pc = "failed" /\ run.error \in {"no-api-key", "upsert-error"}

DistinctPaths ==
    \A d, e \in 1..Len(documents) :
        d # e => documents[d].relative_path # documents[e].relative_path

\* The chunks of the d-th document, in section order, then sub-chunk order.
DocChunks(d) == chunk_markdown(documents[d].content, MAX_CHUNK_CHARS)

\* Position in the arrays of the first chunk of the d-th document.
RECURSIVE FirstPosition(_)
FirstPosition(d) ==
    IF d = 1 THEN 1 ELSE FirstPosition(d - 1) + Len(DocChunks(d - 1))

\* C5: in the arrays of one ingest run over documents of pairwise distinct
\* relative_path, all ids are pairwise distinct, the three arrays are
\* parallel, and the chunks of each document stand together in document order
\* with chunk_index 0..n-1, the i-th with id relative_path + "::chunk" + i and
\* metadata source/filename/chunk_index/section at the same position, however
\* many chunks a section expanded into.
C5_ChunkIdentity ==
    Prepared /\ DistinctPaths =>
        /\ Len(all_chunks) = Len(all_ids) /\ Len(all_metadatas) = Len(all_ids)
        /\ Len(all_ids) = FirstPosition(Len(documents) + 1) - 1
        /\ \A i, j \in 1..Len(all_ids) : i # j => all_ids[i] # all_ids[j]
        /\ \A d \in 1..Len(documents) :
               \A chunks \in {DocChunks(d)}, first \in {FirstPosition(d)} :
                   \A i \in 0..(Len(chunks) - 1) :
                       /\ all_ids[first + i] =
                              documents[d].relative_path
                              \o <<":", ":", "c", "h", "u", "n", "k">> \o Decimal(i)
                       /\ all_chunks[first + i] = chunks[i + 1].text
                       /\ all_metadatas[first + i] =
                              [source |-> documents[d].relative_path,
                               filename |-> documents[d].filename,
                               chunk_index |-> i,
                               section |-> chunks[i + 1].section]

\* A finished run over several documents, one of which, not the first, has a
\* section that expanded into more than one chunk.
C5_Witness ==
    /\ pc = "done"
    /\ \E d \in 2..Len(documents) :
           /\ Len(DocChunks(d - 1)) >= 1
           /\ Len(DocChunks(d)) > Len(split_by_headings(documents[d].content))

\* C6: for every id the run produced, the document recovered on the
\* retrieval side, the part of the id before the first "::", is the chunk's
\* relative_path, its metadata source.
C6_SourceRoundTrip ==
    Prepared =>
        \A k \in 1..Len(all_ids) : SourceOf(all_ids[k]) = all_metadatas[k].source

\* A markdown file of the directory cannot be read.
SomeReadFails ==
    \E f \in docs_dir.files :
        /\ Len(f.path) >= 3
        /\ SubSeq(f.path, Len(f.path) - 2, Len(f.path)) = <<".", "m", "d">>
        /\ ~f.readable

\* The directory is missing or holds no markdown file.
NoDocuments ==
    \/ ~docs_dir.exists
    \/ \A f \in docs_dir.files :
           \/ Len(f.path) < 3
           \/ SubSeq(f.path, Len(f.path) - 2, Len(f.path)) # <<".", "m", "d">>

\* C7: if reading a document of the corpus fails, or the corpus has no
\* document, the run ends with an error at its first step, before the
\* collection is deleted and before any upsert: the collection is the one the
\* run found.
C7_FailFast ==
    (SomeReadFails \/ NoDocuments) /\ pc # "start" =>
        /\ pc = "failed"
        /\ run.error \in {"no-docs-dir", "read-error", "no-markdown-files"}
        /\ ~run.delete_issued
        /\ run.upserts_issued = 0
        /\ collection = run.found

\* A run over a directory with a readable document and an unreadable one,
\* started on a store that held entries, has failed on the read.
C7_Witness ==
    /\ pc = "failed" /\ run.error = "read-error"
    /\ run.found.items # {}
    /\ \E f \in docs_dir.files : f.readable /\ f.content # <<>> /\ IsMarkdown(f.path)

\* The ids this run generated.
GeneratedIds == {all_ids[k] : k \in 1..Len(all_ids)}

\* C11: for any prior state of the collection, once the run has completed all
\* its upsert batches the collection holds exactly the ids generated in this
\* run: no entry of an earlier run whose id is not regenerated remains.
C11_CleanReingest ==
    pc = "done" => Ids(collection.items) = GeneratedIds

(***************************************************************************)
(* Properties of the endpoints                                             *)
(***************************************************************************)
\* C10: at each of /retrieve, /query and /debug-query, a request whose
\* handler finds the collection with zero chunks is answered 503 "No
\* documents ingested yet", and neither a similarity query nor a chat
\* completion is issued for it.
C10_EmptyCollectionAnswered ==
    req.count_seen = 0 =>
        /\ req.stage = "responded"
        /\ req.status = 503 /\ req.detail = "no-documents"
        /\ ~req.queried /\ ~req.completed

\* A /query request answered on an empty collection.
C10_Witness ==
    /\ req.endpoint = "query" /\ req.stage = "responded"
    /\ req.count_seen = 0
    /\ collection.exists /\ collection.items = {}

====
